---- MODULE Spec2Model ----
(***************************************************************************)
(* Agent-based epidemic simulator (C variant: abm.c, abm.h, main.c).       *)
(* A batch runner pushes `simulations` replicas to a thread pool; each     *)
(* replica owns an LCG, a population and two counters and runs the tick    *)
(* pipeline grow, infect, recover, vaccinate, susceptible, die, reporting  *)
(* tally rows to the shared stdout.                                        *)
(***************************************************************************)
EXTENDS Integers, Sequences, FiniteSets, TLC

(* ------------------------------------------------------------------ *)
(* Program constants                                                   *)
(* ------------------------------------------------------------------ *)

\* enum state (abm.h)
SUSCEPTIBLE == "S"
INFECTIOUS == "I"
RECOVERED == "R"
VACCINATED == "V"
DEAD == "D"
States == {SUSCEPTIBLE, INFECTIOUS, RECOVERED, VACCINATED, DEAD}

\* enum infection_method (abm.h)
BOTH == 0
ONE == 1
TWO == 2

\* const uint64_t m = 32768
m == 32768
\* the LCG multiplier 1103515245 = LcgMulHigh * 65536 + LcgMulLow, and increment
LcgMulLow == 20077
LcgMulHigh == 16838
LcgInc == 12345
\* rng_uint64_t divides the seed by 65536: one 16-bit limb
LimbBase == 65536
\* rng_init(from_file) scales the seed
FileSeedScale == 500000
\* new_simulation: capacity is at least 10 slots
MinCapacity == 10
\* sizeof(agent_t): size_t identity (8) + enum state (4) + padding (4)
SizeofAgent == 16
\* simulate: a tally row every 100 iterations
ReportInterval == 100
\* report: fields of one tally row
RowFields == 9

(* ------------------------------------------------------------------ *)
(* RNG: uint64_t seed held as four 16-bit limbs, least significant      *)
(* first, so that seed * 1103515245 + 12345 wraps at 2^64 as in C.      *)
(* ------------------------------------------------------------------ *)

\* a uint64_t value below 2^31 as limbs
ToLimbs(n) == << n % LimbBase, n \div LimbBase, 0, 0 >>

rng_init(seed, from_file) ==
    IF from_file = FALSE THEN ToLimbs(seed) ELSE ToLimbs(seed * FileSeedScale)

\* seed * 1103515245 + 12345 (mod 2^64)
LcgStep(s) ==
    LET t0 == s[1] * LcgMulLow
        t1 == s[2] * LcgMulLow + (t0 \div LimbBase)
        t2 == s[3] * LcgMulLow + (t1 \div LimbBase)
        t3 == s[4] * LcgMulLow + (t2 \div LimbBase)
        u0 == s[1] * LcgMulHigh
        u1 == s[2] * LcgMulHigh + (u0 \div LimbBase)
        u2 == s[3] * LcgMulHigh + (u1 \div LimbBase)
        v0 == (t0 % LimbBase) + LcgInc
        v1 == (t1 % LimbBase) + (u0 % LimbBase) + (v0 \div LimbBase)
        v2 == (t2 % LimbBase) + (u1 % LimbBase) + (v1 \div LimbBase)
        v3 == (t3 % LimbBase) + (u2 % LimbBase) + (v2 \div LimbBase)
    IN  << v0 % LimbBase, v1 % LimbBase, v2 % LimbBase, v3 % LimbBase >>

\* a generator that returns seed / 65536 without the reduction modulo m
rng_unreduced(rng) ==
    LET s == LcgStep(rng)
    IN  [rng |-> s, val |-> s[2]]

\* (seed / 65536) % m after the state advance; returns the new state and the value
rng_uint64_t(rng) ==
    LET s == LcgStep(rng)
    IN  [rng |-> s, val |-> s[2] % m]

\* rng_uint64_t(rng) % max; assert(max > 0) aborts the process when max = 0
rng_to(rng, max) ==
    LET d == rng_uint64_t(rng)
    IN  IF max > 0
        THEN [rng |-> d.rng, val |-> d.val % max, abort |-> FALSE]
        ELSE [rng |-> d.rng, val |-> 0, abort |-> TRUE]

\* (double) rng_uint64_t(rng) / m, kept as its numerator over m
rng_double(rng) == rng_uint64_t(rng)

\* rng_double(rng) < prob, for prob = p / ProbDen: val / m < p / ProbDen
ProbDen == 4
Below(val, p) == val * ProbDen < p * m

\* double growth = g / GrowthDen
GrowthDen == 2

(* ------------------------------------------------------------------ *)
(* Agents and population helpers                                        *)
(* ------------------------------------------------------------------ *)

new_agent(identity, state) == [identity |-> identity, state |-> state]

\* C position p (0-based) is element p + 1 of the sequence
At(agents, p) == agents[p + 1]
SetState(agents, p, state) == [agents EXCEPT ![p + 1].state = state]
\* a swap without the temporary: agents[j] = agents[i] only
SwapWithoutTemporary(agents, i, j) ==
    [agents EXCEPT ![i + 1] = agents[i + 1], ![j + 1] = agents[i + 1]]

Swap(agents, i, j) ==
    [agents EXCEPT ![i + 1] = agents[j + 1], ![j + 1] = agents[i + 1]]

\* for (i = n - 1; i > 0; --i) { j = rng_to(rng, i + 1); swap(agents[j], agents[i]); }
RECURSIVE ShuffleLoop(_, _, _)
ShuffleLoop(agents, i, rng) ==
    IF i > 0
    THEN LET d == rng_to(rng, i + 1)
         IN  ShuffleLoop(Swap(agents, d.val, i), i - 1, d.rng)
    ELSE [agents |-> agents, rng |-> rng, abort |-> FALSE]

\* n = 0: i = n - 1 wraps to SIZE_MAX, i + 1 wraps to 0 and rng_to asserts
shuffle(agents, n, rng) ==
    IF n = 0
    THEN [agents |-> agents, rng |-> rng_to(rng, 0).rng, abort |-> TRUE]
    ELSE ShuffleLoop(agents, n - 1, rng)

count_if_state(agents, n, state) ==
    Cardinality({p \in 0 .. n - 1 : At(agents, p).state = state})

count_if_not_state(agents, n, state) == n - count_if_state(agents, n, state)

get_stats(agents, n) ==
    [susceptible |-> count_if_state(agents, n, SUSCEPTIBLE),
     infectious |-> count_if_state(agents, n, INFECTIOUS),
     recovered |-> count_if_state(agents, n, RECOVERED),
     vaccinated |-> count_if_state(agents, n, VACCINATED),
     dead |-> count_if_state(agents, n, DEAD)]

Max(a, b) == IF a > b THEN a ELSE b
Min(a, b) == IF a < b THEN a ELSE b

\* round(num / den) for den > 0: halfway cases away from zero
Round(num, den) ==
    IF num >= 0
    THEN (2 * num + den) \div (2 * den)
    ELSE -((2 * (-num) + den) \div (2 * den))

(* ------------------------------------------------------------------ *)
(* new_simulation                                                       *)
(* The population is the sequence of slots 0 .. size-1; `heap` is the   *)
(* number of agent slots of the block `agents` points to.               *)
(* ------------------------------------------------------------------ *)

\* a creation that marks no agent Infectious
MarkNone(agents, i, n) == agents

\* for (i = 0; i < infectious; i++) agents[i].state = INFECTIOUS, on the slots of the population
RECURSIVE MarkInfectious(_, _, _)
MarkInfectious(agents, i, n) ==
    IF i < n
    THEN MarkInfectious(SetState(agents, i, INFECTIOUS), i + 1, n)
    ELSE agents

\* the slots new_simulation's marking loop writes: for (i = 0; i < parameters->infectious; i++)
MarkedSlots(p) == 0 .. p.infectious - 1

\* a creation that leaves the infection counter at zero
new_simulation_unseeded(identity, p) ==
    LET n0 == (p.agents * 3) \div 2
        n == IF n0 < MinCapacity THEN MinCapacity ELSE n0
        fresh == [k \in 1 .. p.agents |-> new_agent(k - 1, SUSCEPTIBLE)]
        sh == shuffle(fresh, p.agents, rng_init(identity, p.random_file))
    IN  [sim |-> [identity |-> identity,
                  agents |-> MarkInfectious(sh.agents, 0, Min(p.infectious, p.agents)),
                  size |-> p.agents,
                  capacity |-> n,
                  total_infections |-> 0,
                  infection_deaths |-> 0,
                  rng |-> sh.rng],
         heap |-> n,
         abort |-> sh.abort]

new_simulation(identity, p) ==
    LET n0 == (p.agents * 3) \div 2
        n == IF n0 < MinCapacity THEN MinCapacity ELSE n0
        fresh == [k \in 1 .. p.agents |-> new_agent(k - 1, SUSCEPTIBLE)]
        sh == shuffle(fresh, p.agents, rng_init(identity, p.random_file))
    IN  [sim |-> [identity |-> identity,
                  agents |-> MarkInfectious(sh.agents, 0, Min(p.infectious, p.agents)),
                  size |-> p.agents,
                  capacity |-> n,
                  total_infections |-> p.infectious,
                  infection_deaths |-> 0,
                  rng |-> sh.rng],
         heap |-> n,
         abort |-> sh.abort]

(* ------------------------------------------------------------------ *)
(* Events                                                               *)
(* ------------------------------------------------------------------ *)

\* capacity *= 3 / 2: integer division, the factor is 1
GrowCapacity(capacity) == capacity * (3 \div 2)

\* realloc(agents, capacity): `capacity` bytes
ReallocSlots(capacity) == capacity \div SizeofAgent

grow(s, heap, p) ==
    LET num_agents == count_if_not_state(s.agents, s.size, DEAD)
        new_agents == Round(p.growth * num_agents, GrowthDen)
        \* size_t + int: a negative sum wraps to a huge value
        expand == (s.size + new_agents < 0) \/ (s.size + new_agents > s.capacity)
        capacity == IF expand THEN GrowCapacity(s.capacity) ELSE s.capacity
        appended == [k \in 1 .. new_agents |-> new_agent(s.size + k - 1, SUSCEPTIBLE)]
        size == s.size + new_agents
    IN  [sim |-> [s EXCEPT !.capacity = capacity,
                           !.agents = SubSeq(s.agents \o appended, 1, size),
                           !.size = size],
         heap |-> IF expand THEN ReallocSlots(capacity) ELSE heap]

RECURSIVE InfectOneLoop(_, _, _)
InfectOneLoop(s, i, encounters) ==
    IF i < encounters
    THEN LET d1 == rng_to(s.rng, s.size)
             d2 == rng_to(d1.rng, s.size)
             ind1 == d1.val
             ind2 == d2.val
             s1 == [s EXCEPT !.rng = d2.rng]
         IN  IF d1.abort
             THEN [sim |-> [s EXCEPT !.rng = d1.rng], abort |-> TRUE]
             ELSE IF At(s.agents, ind1).state = SUSCEPTIBLE
                     /\ At(s.agents, ind2).state = INFECTIOUS
                  THEN InfectOneLoop(
                         [s1 EXCEPT !.agents = SetState(s.agents, ind1, INFECTIOUS),
                                    !.total_infections = @ + 1], i + 1, encounters)
                  ELSE IF At(s.agents, ind1).state = INFECTIOUS
                          /\ At(s.agents, ind2).state = SUSCEPTIBLE
                       THEN InfectOneLoop(
                              [s1 EXCEPT !.agents = SetState(s.agents, ind2, INFECTIOUS),
                                         !.total_infections = @ + 1], i + 1, encounters)
                       ELSE InfectOneLoop(s1, i + 1, encounters)
    ELSE [sim |-> s, abort |-> FALSE]

\* an infection event without encounters: with an Infectious agent present, every
\* Susceptible agent is infected
infect_everyone(s, p) ==
    LET exposed == {k \in 1 .. s.size : s.agents[k].state = SUSCEPTIBLE}
        hit == IF count_if_state(s.agents, s.size, INFECTIOUS) > 0 THEN exposed ELSE {}
    IN  [sim |-> [s EXCEPT !.agents = [k \in 1 .. Len(s.agents) |->
                                          IF k \in hit
                                          THEN [s.agents[k] EXCEPT !.state = INFECTIOUS]
                                          ELSE s.agents[k]],
                           !.total_infections = @ + Cardinality(hit)],
         abort |-> FALSE]

infect_method_one(s, p) == InfectOneLoop(s, 0, p.encounters)

\* positions i < min(size, max) whose agent is in `state`, ascending
RECURSIVE get_indices(_, _, _, _)
get_indices(s, i, state, max) ==
    IF i < s.size /\ ~(i >= max)
    THEN (IF At(s.agents, i).state = state THEN << i >> ELSE << >>)
         \o get_indices(s, i + 1, state, max)
    ELSE << >>

\* agents[indices[i]].state = INFECTIOUS: the write target of infect_method_two
InfectTarget(indices, i) == indices[i + 1]

\* a pairing loop that writes Susceptible at every collected position
MarkCollectedSusceptible(s, indices, i) ==
    [s EXCEPT !.agents =
        [k \in 1 .. Len(s.agents) |->
            IF \E j \in 1 .. Len(indices) : indices[j] = k - 1
            THEN [s.agents[k] EXCEPT !.state = SUSCEPTIBLE]
            ELSE s.agents[k]]]

RECURSIVE InfectTwoLoop(_, _, _)
InfectTwoLoop(s, indices, i) ==
    IF i < Len(indices)
    THEN IF At(s.agents, i).state = INFECTIOUS
         THEN InfectTwoLoop(
                [s EXCEPT !.agents = SetState(s.agents, InfectTarget(indices, i), INFECTIOUS),
                          !.total_infections = @ + 1], indices, i + 1)
         ELSE InfectTwoLoop(s, indices, i + 1)
    ELSE s

\* a Method B that infects at every collected position, met by an Infectious agent or not
infect_without_contact(s, p) ==
    LET indices == get_indices(s, 0, SUSCEPTIBLE, p.encounters)
        sh == shuffle(s.agents, s.size, s.rng)
        s1 == [s EXCEPT !.agents = sh.agents, !.rng = sh.rng]
    IN  IF sh.abort
        THEN [sim |-> s1, abort |-> TRUE]
        ELSE [sim |-> [s1 EXCEPT !.agents = MarkInfectious(s1.agents, 0, Len(indices)),
                                 !.total_infections = @ + Len(indices)],
              abort |-> FALSE]

infect_method_two(s, p) ==
    LET indices == get_indices(s, 0, SUSCEPTIBLE, p.encounters)
        sh == shuffle(s.agents, s.size, s.rng)
        s1 == [s EXCEPT !.agents = sh.agents, !.rng = sh.rng]
    IN  IF sh.abort
        THEN [sim |-> s1, abort |-> TRUE]
        ELSE [sim |-> InfectTwoLoop(s1, indices, 0), abort |-> FALSE]

\* a pass that draws rng_double for every agent, eligible or not
RECURSIVE BernoulliPassDrawingAll(_, _, _, _, _)
BernoulliPassDrawingAll(s, k, from, to, prob) ==
    IF k < s.size
    THEN LET d == rng_double(s.rng)
             s1 == [s EXCEPT !.rng = d.rng]
         IN  IF At(s.agents, k).state \in from /\ Below(d.val, prob)
             THEN BernoulliPassDrawingAll([s1 EXCEPT !.agents = SetState(s.agents, k, to)],
                                          k + 1, from, to, prob)
             ELSE BernoulliPassDrawingAll(s1, k + 1, from, to, prob)
    ELSE s

\* one pass: an agent in a state of `from` draws rng_double and moves to `to` when below prob
RECURSIVE BernoulliPass(_, _, _, _, _)
BernoulliPass(s, k, from, to, prob) ==
    IF k < s.size
    THEN IF At(s.agents, k).state \in from
         THEN LET d == rng_double(s.rng)
                  s1 == [s EXCEPT !.rng = d.rng]
              IN  IF Below(d.val, prob)
                  THEN BernoulliPass([s1 EXCEPT !.agents = SetState(s.agents, k, to)],
                                     k + 1, from, to, prob)
                  ELSE BernoulliPass(s1, k + 1, from, to, prob)
         ELSE BernoulliPass(s, k + 1, from, to, prob)
    ELSE s

\* a recovery event that also moves the Recovered agents behind the others
recover_to_back(s, p) ==
    LET d == BernoulliPass(s, 0, {INFECTIOUS}, RECOVERED, p.recovery_prob)
    IN  [d EXCEPT !.agents = SelectSeq(d.agents, LAMBDA a : a.state # RECOVERED)
                               \o SelectSeq(d.agents, LAMBDA a : a.state = RECOVERED)]

recover(s, p) == BernoulliPass(s, 0, {INFECTIOUS}, RECOVERED, p.recovery_prob)

vaccinate(s, p) == BernoulliPass(s, 0, {SUSCEPTIBLE}, VACCINATED, p.vaccination_prob)

susceptible(s, p) ==
    BernoulliPass(s, 0, {VACCINATED, RECOVERED}, SUSCEPTIBLE, p.regression_prob)

\* a death pass that counts every death as an infection death
RECURSIVE DieLoopCountingAll(_, _, _)
DieLoopCountingAll(s, k, p) ==
    IF k < s.size
    THEN IF At(s.agents, k).state \in {SUSCEPTIBLE, INFECTIOUS}
         THEN LET d == rng_double(s.rng)
                  s1 == [s EXCEPT !.rng = d.rng]
                  prob == IF At(s.agents, k).state = SUSCEPTIBLE
                          THEN p.death_prob_susceptible ELSE p.death_prob_infectious
              IN  IF Below(d.val, prob)
                  THEN DieLoopCountingAll(
                         [s1 EXCEPT !.agents = SetState(s.agents, k, DEAD),
                                    !.infection_deaths = @ + 1], k + 1, p)
                  ELSE DieLoopCountingAll(s1, k + 1, p)
         ELSE DieLoopCountingAll(s, k + 1, p)
    ELSE s

RECURSIVE DieLoop(_, _, _)
DieLoop(s, k, p) ==
    IF k < s.size
    THEN IF At(s.agents, k).state = SUSCEPTIBLE
         THEN LET d == rng_double(s.rng)
                  s1 == [s EXCEPT !.rng = d.rng]
              IN  IF Below(d.val, p.death_prob_susceptible)
                  THEN DieLoop([s1 EXCEPT !.agents = SetState(s.agents, k, DEAD)], k + 1, p)
                  ELSE DieLoop(s1, k + 1, p)
         ELSE IF At(s.agents, k).state = INFECTIOUS
              THEN LET d == rng_double(s.rng)
                       s1 == [s EXCEPT !.rng = d.rng]
                   IN  IF Below(d.val, p.death_prob_infectious)
                       THEN DieLoop([s1 EXCEPT !.agents = SetState(s.agents, k, DEAD),
                                               !.infection_deaths = @ + 1], k + 1, p)
                       ELSE DieLoop(s1, k + 1, p)
              ELSE DieLoop(s, k + 1, p)
    ELSE s

\* a death event that also takes the Dead agents out of the population
die_removing(s, p) ==
    LET d == DieLoop(s, 0, p)
        live == SelectSeq(d.agents, LAMBDA a : a.state # DEAD)
    IN  [d EXCEPT !.agents = live, !.size = Len(live)]

die(s, p) == DieLoop(s, 0, p)

(* ------------------------------------------------------------------ *)
(* Reporting                                                            *)
(* ------------------------------------------------------------------ *)

state_char(state) ==
    CASE state = SUSCEPTIBLE -> "S"
      [] state = INFECTIOUS -> "I"
      [] state = RECOVERED -> "R"
      [] state = VACCINATED -> "V"
      [] state = DEAD -> "D"
      [] OTHER -> "_"

\* cmp_agents orders by identity
cmp_agents(x, y) ==
    IF x.identity < y.identity THEN -1 ELSE IF x.identity = y.identity THEN 0 ELSE 1

RECURSIVE InsertSorted(_, _)
InsertSorted(sorted, a) ==
    IF sorted = << >> THEN << a >>
    ELSE IF cmp_agents(a, Head(sorted)) < 0
         THEN << a >> \o sorted
         ELSE << Head(sorted) >> \o InsertSorted(Tail(sorted), a)

\* qsort(agents, size, sizeof(agent_t), cmp_agents)
RECURSIVE qsort(_)
qsort(agents) ==
    IF agents = << >> THEN << >>
    ELSE InsertSorted(qsort(Tail(agents)), Head(agents))

\* the rows print_agents writes: "%zu,%c\n" per agent
AgentRows(agents) ==
    [k \in 1 .. Len(agents) |-> << agents[k].identity, state_char(agents[k].state) >>]

\* snprintf(output, 250, "%zu,%zu,%zu,%zu,%zu,%zu,%zu,%zu,%zu", ...)
FormatRow(s, iteration) ==
    LET st == get_stats(s.agents, s.size)
    IN  << s.identity, iteration, st.susceptible, st.infectious, st.recovered,
           st.vaccinated, st.dead, s.total_infections, s.infection_deaths >>

\* one token of stdout: written by thread `by`
NumTok(by, v) == [by |-> by, kind |-> "num", val |-> v]
HdrTok(by, k) == [by |-> by, kind |-> "hdr", val |-> k]
NlTok(by) == [by |-> by, kind |-> "nl", val |-> 0]

\* puts(output): the string and the newline, under the stream lock
puts(out, by, fields) ==
    out \o [k \in 1 .. Len(fields) |-> NumTok(by, fields[k])] \o << NlTok(by) >>

\* printf("#,iter,S,I,R,V,D,TI,TID\n")
report_header(out, by) ==
    out \o [k \in 1 .. RowFields |-> HdrTok(by, k)] \o << NlTok(by) >>

\* report: print_agents runs when output_agents > 0, iteration > 0 and iteration % output_agents == 0
DumpDue(p, iteration) ==
    p.output_agents > 0 /\ iteration > 0 /\ iteration % p.output_agents = 0

\* fopen(simulation->parameters.agent_filename, "w")
DumpFile(r, p) == p.agent_filename

\* one static buffer for every report call
SharedBuffer(r) == 0

\* char output[250]: the buffer a report call formats into is its own
OutputBuffer(r) == r

(* ------------------------------------------------------------------ *)
(* State                                                                *)
(* ------------------------------------------------------------------ *)

VARIABLES
    parameters,     \* parameters_t filled by process_arguments, shared read-only
    num_processors, \* g_get_num_processors(): the pool's max_threads
    process,        \* "running", "returned" (main returned), "aborted" or "exited"
    pushed,         \* main's loop variable i: tasks pushed so far
    pc,             \* per replica: where its task stands
    sim,            \* per replica: simulation_t
    heap,           \* per replica: agent slots of the block sim.agents points to
    loc,            \* per replica: simulate's loop variable and report's iteration argument
    output,         \* per buffer: report's char output[250]
    out,            \* stdout: the tokens written so far
    files,          \* file name -> rows and the replicas that wrote it
    io              \* what the run's writes meet: "ok", or the fault of IoFaults they hit

vars == << parameters, num_processors, process, pushed, pc, sim, heap, loc, output, out, files, io >>

(* ------------------------------------------------------------------ *)
(* Bounds of the model                                                  *)
(* ------------------------------------------------------------------ *)

MaxSimulations == 2
MaxProcessors == 2
MaxIterations == 2
MaxAgents == 7
MaxInfectious == 2
MaxEncounters == 2
MaxOutputAgents == 2
\* long runs: up to MaxLongReports report intervals
MaxLongReports == 2
\* agents (and encounters per tick) of the runs in which the infection lasts
EndemicAgents == 20

Replicas == 0 .. MaxSimulations - 1

\* set_default_parameters: the dump file name
DefaultAgentFilename == "agents.csv"

MakeParameters(simulations, iterations, agents, infectious, encounters, growth, probs, method, output_agents) ==
    [simulations |-> simulations,
     iterations |-> iterations,
     agents |-> agents,
     infectious |-> infectious,
     encounters |-> encounters,
     growth |-> growth,
     death_prob_susceptible |-> probs[1],
     death_prob_infectious |-> probs[2],
     recovery_prob |-> probs[3],
     vaccination_prob |-> probs[4],
     regression_prob |-> probs[5],
     infection_method |-> method,
     output_agents |-> output_agents,
     agent_filename |-> DefaultAgentFilename,
     random_file |-> FALSE]

\* probabilities (death S, death I, recovery, vaccination, regression) over ProbDen
ProbProfiles ==
    { << 0, 0, 0, 0, 0 >>, << 2, 2, 2, 2, 2 >>, << 0, 2, 0, 3, 3 >>, << 4, 4, 4, 4, 4 >> }

\* growth rates over GrowthDen: -0.5, 0, 0.5
Growths == { -1, 0, 1 }

\* short runs of one replica: every population and event parameter varies
SoloParameters ==
    { MakeParameters(1, it, a, inf, enc, g, pr, meth, 0) :
        it \in 0 .. MaxIterations, a \in 0 .. MaxAgents, inf \in 0 .. MaxInfectious,
        enc \in 0 .. MaxEncounters, g \in Growths, pr \in ProbProfiles,
        meth \in {ONE, TWO} }

\* batches of 0 .. MaxSimulations replicas on the pool, with and without agent dumps,
\* of at most MaxIterations ticks over all replicas
BatchParameters ==
    { p \in { MakeParameters(n, it, 3, 1, 2, 0, << 2, 2, 2, 2, 2 >>, BOTH, oa) :
                n \in 0 .. MaxSimulations, it \in 0 .. MaxIterations,
                oa \in 0 .. MaxOutputAgents } :
        p.simulations * p.iterations <= MaxIterations }

\* long runs of one replica over several report intervals
LongParameters ==
    { MakeParameters(1, k * ReportInterval + d, 2, 1, 1, 0, << 0, 1, 1, 1, 1 >>, meth, oa) :
        k \in 1 .. MaxLongReports, d \in {0, 1}, meth \in {ONE, TWO}, oa \in {0, ReportInterval} }

\* one tick of one replica whose population outgrows its first block, then a dump
GrowingDumpParameters ==
    { MakeParameters(1, 1, MaxAgents, 1, 1, 1, << 0, 0, 0, 0, 0 >>, meth, 1) :
        meth \in {ONE, TWO} }

\* long runs of one replica in which agents recover and become Susceptible again, so
\* that Infectious agents are still there after the first report interval
EndemicParameters ==
    { MakeParameters(1, MaxLongReports * ReportInterval, EndemicAgents, MaxInfectious,
                     EndemicAgents, 0, << 0, 0, 1, 0, 1 >>, meth, oa) :
        meth \in {ONE, TWO}, oa \in {0, ReportInterval} }

ParameterSpace ==
    SoloParameters \cup BatchParameters \cup LongParameters \cup GrowingDumpParameters
      \cup EndemicParameters

\* faults of the output calls: puts and printf on stdout return EOF; fopen of the dump
\* file returns NULL; the dump file cannot be written (fprintf or, for buffered rows,
\* fclose reports it)
IoFaults == { "stdout_fails", "fopen_fails", "dump_write_fails" }

\* the runs that are also taken with each fault: one replica, with and without dumps
FaultParameters == { p \in BatchParameters : p.simulations = 1 }

NoSim ==
    [identity |-> 0, agents |-> << >>, size |-> 0, capacity |-> 0,
     total_infections |-> 0, infection_deaths |-> 0, rng |-> << 0, 0, 0, 0 >>]

NoLoc == [i |-> 0, iteration |-> 0, final |-> FALSE]

Init ==
    /\ parameters \in ParameterSpace
    /\ io \in {"ok"} \cup (IF parameters \in FaultParameters THEN IoFaults ELSE {})
    \* a pool with more threads than tasks runs as one with as many threads as tasks
    /\ num_processors \in 1 .. Min(MaxProcessors, Max(1, parameters.simulations))
    /\ process = "running"
    /\ pushed = 0
    /\ pc = [r \in Replicas |-> "unpushed"]
    /\ sim = [r \in Replicas |-> NoSim]
    /\ heap = [r \in Replicas |-> 0]
    /\ loc = [r \in Replicas |-> NoLoc]
    /\ output = [r \in Replicas |-> << >>]
    /\ out = << >>
    /\ files = [f \in {DefaultAgentFilename} |-> [rows |-> << >>, writers |-> {}]]

(* ------------------------------------------------------------------ *)
(* main and the thread pool                                             *)
(* ------------------------------------------------------------------ *)

Running == process = "running"

\* a task a pool thread is executing
Active(r) == pc[r] \notin {"unpushed", "queued", "done"}

\* for (i = 0; i < parameters.simulations; ++i) { arr[i] = i; g_thread_pool_push(pool, arr + i, &error); }
Push ==
    /\ Running
    /\ pushed < parameters.simulations
    /\ pc' = [pc EXCEPT ![pushed] = "queued"]
    /\ pushed' = pushed + 1
    /\ UNCHANGED << parameters, io, num_processors, process, sim, heap, loc, output, out, files >>

\* g_thread_pool_free that does not wait for the tasks
PoolNotAwaited == TRUE

\* g_thread_pool_free(pool, immediate = false, wait = true) returns once every pushed task has run
PoolDrained == \A r \in 0 .. parameters.simulations - 1 : pc[r] = "done"

Join ==
    /\ Running
    /\ pushed = parameters.simulations
    /\ PoolDrained
    /\ process' = "returned"
    /\ UNCHANGED << parameters, io, num_processors, pushed, pc, sim, heap, loc, output, out, files >>

\* the pool runs at most max_threads tasks at a time and takes them in push order
CanStart(r) ==
    /\ pc[r] = "queued"
    /\ \A q \in 0 .. r - 1 : pc[q] # "queued"
    /\ Cardinality({q \in Replicas : Active(q)}) < num_processors

\* where simulate continues with loop variable i: another tick, or the final report
LoopCheck(i) ==
    IF i < parameters.iterations
    THEN [pc |-> "grow", loc |-> [i |-> i, iteration |-> 0, final |-> FALSE]]
    ELSE [pc |-> "format",
          loc |-> [i |-> i, iteration |-> parameters.iterations, final |-> TRUE]]

\* the process aborts: assert failure in rng_to
Abort ==
    /\ process' = "aborted"
    /\ UNCHANGED << parameters, io, num_processors, pushed, pc, sim, heap, loc, output, out, files >>

\* run_one_simulation: new_simulation, then simulate starts (header for identity 0, report 0)
RunOneSimulation(r) ==
    /\ Running
    /\ CanStart(r)
    /\ LET res == new_simulation(r, parameters)
       IN  IF res.abort
           THEN Abort
           ELSE /\ sim' = [sim EXCEPT ![r] = res.sim]
                /\ heap' = [heap EXCEPT ![r] = res.heap]
                /\ pc' = [pc EXCEPT ![r] = IF res.sim.identity = 0 THEN "header" ELSE "format"]
                /\ loc' = [loc EXCEPT ![r] = [i |-> 0, iteration |-> 0, final |-> FALSE]]
                /\ UNCHANGED << parameters, io, num_processors, process, pushed, output, out, files >>

ReportHeader(r) ==
    /\ Running
    /\ pc[r] = "header"
    \* the return value of printf is not looked at
    /\ out' = IF io = "stdout_fails" THEN out ELSE report_header(out, r)
    /\ pc' = [pc EXCEPT ![r] = "format"]
    /\ UNCHANGED << parameters, io, num_processors, process, pushed, sim, heap, loc, output, files >>

\* report: get_stats and snprintf into the local buffer
ReportFormat(r) ==
    /\ Running
    /\ pc[r] = "format"
    /\ output' = [output EXCEPT ![OutputBuffer(r)] = FormatRow(sim[r], loc[r].iteration)]
    /\ pc' = [pc EXCEPT ![r] = "puts"]
    /\ UNCHANGED << parameters, io, num_processors, process, pushed, sim, heap, loc, out, files >>

\* where simulate continues after report returns
AfterReport(r) ==
    IF loc[r].final
    THEN [pc |-> "free", loc |-> loc[r]]
    ELSE IF loc[r].iteration = 0
         THEN LoopCheck(0)
         ELSE LoopCheck(loc[r].i + 1)

\* report: puts(output), then the print_agents test
ReportPuts(r) ==
    /\ Running
    /\ pc[r] = "puts"
    \* the return value of puts is not looked at
    /\ out' = IF io = "stdout_fails" THEN out ELSE puts(out, r, output[OutputBuffer(r)])
    /\ IF DumpDue(parameters, loc[r].iteration)
       THEN /\ pc' = [pc EXCEPT ![r] = "print_agents"]
            /\ loc' = loc
       ELSE /\ pc' = [pc EXCEPT ![r] = AfterReport(r).pc]
            /\ loc' = [loc EXCEPT ![r] = AfterReport(r).loc]
    /\ UNCHANGED << parameters, io, num_processors, process, pushed, sim, heap, output, files >>

\* exit(EXIT_FAILURE) in a pool thread ends the process
Exit ==
    /\ process' = "exited"
    /\ UNCHANGED << parameters, io, num_processors, pushed, pc, heap, loc, output, out >>

\* print_agents: qsort the population in place, fopen(..., "w") and write one row per agent
PrintAgents(r) ==
    /\ Running
    /\ pc[r] = "print_agents"
    /\ io \notin {"fopen_fails", "dump_write_fails"}
    /\ LET sorted == qsort(sim[r].agents)
           f == DumpFile(r, parameters)
       IN  /\ sim' = [sim EXCEPT ![r].agents = sorted]
           /\ files' = [files EXCEPT ![f] = [rows |-> AgentRows(sorted),
                                             writers |-> @.writers \cup {r}]]
    /\ pc' = [pc EXCEPT ![r] = AfterReport(r).pc]
    /\ loc' = [loc EXCEPT ![r] = AfterReport(r).loc]
    /\ UNCHANGED << parameters, io, num_processors, process, pushed, heap, output, out >>

\* print_agents when fopen returns NULL: "Cannot open agent file", exit(EXIT_FAILURE)
PrintAgentsOpenFails(r) ==
    /\ Running
    /\ pc[r] = "print_agents"
    /\ io = "fopen_fails"
    /\ sim' = [sim EXCEPT ![r].agents = qsort(sim[r].agents)]
    /\ files' = files
    /\ Exit

\* print_agents when a fprintf returns a negative value: the file has been truncated by
\* fopen, "Error writing to agent file.", exit(EXIT_FAILURE)
PrintAgentsWriteFails(r) ==
    /\ Running
    /\ pc[r] = "print_agents"
    /\ io = "dump_write_fails"
    /\ sim' = [sim EXCEPT ![r].agents = qsort(sim[r].agents)]
    /\ files' = [files EXCEPT ![DumpFile(r, parameters)] =
                     [rows |-> << >>, writers |-> @.writers \cup {r}]]
    /\ Exit

\* print_agents when every fprintf fits the stream's buffer and the write fails in
\* fclose, whose return value is not looked at
PrintAgentsCloseFails(r) ==
    /\ Running
    /\ pc[r] = "print_agents"
    /\ io = "dump_write_fails"
    /\ sim' = [sim EXCEPT ![r].agents = qsort(sim[r].agents)]
    /\ files' = [files EXCEPT ![DumpFile(r, parameters)] =
                     [rows |-> << >>, writers |-> @.writers \cup {r}]]
    /\ pc' = [pc EXCEPT ![r] = AfterReport(r).pc]
    /\ loc' = [loc EXCEPT ![r] = AfterReport(r).loc]
    /\ UNCHANGED << parameters, io, num_processors, process, pushed, heap, output, out >>

Grow(r) ==
    /\ Running
    /\ pc[r] = "grow"
    /\ LET res == grow(sim[r], heap[r], parameters)
       IN  /\ sim' = [sim EXCEPT ![r] = res.sim]
           /\ heap' = [heap EXCEPT ![r] = res.heap]
    /\ pc' = [pc EXCEPT ![r] = "infect"]
    /\ UNCHANGED << parameters, io, num_processors, process, pushed, loc, output, out, files >>

\* a choice of the infection event with the parities exchanged
OddUsesMethodOne(s, p) ==
    IF p.infection_method = BOTH
    THEN s.identity % 2 = 1
    ELSE p.infection_method = ONE

\* simulate's choice of the infection event
UsesMethodOne(s, p) ==
    IF p.infection_method = BOTH
    THEN s.identity % 2 = 0
    ELSE p.infection_method = ONE

Infect(r) ==
    /\ Running
    /\ pc[r] = "infect"
    /\ LET res == IF UsesMethodOne(sim[r], parameters)
                  THEN infect_method_one(sim[r], parameters)
                  ELSE infect_method_two(sim[r], parameters)
       IN  IF res.abort
           THEN Abort
           ELSE /\ sim' = [sim EXCEPT ![r] = res.sim]
                /\ pc' = [pc EXCEPT ![r] = "recover"]
                /\ UNCHANGED << parameters, io, num_processors, process, pushed, heap, loc, output, out, files >>

\* a tick that goes from recover straight to die
RecoverThenDie(r) ==
    /\ Running
    /\ pc[r] = "recover"
    /\ sim' = [sim EXCEPT ![r] = recover(sim[r], parameters)]
    /\ pc' = [pc EXCEPT ![r] = "die"]
    /\ UNCHANGED << parameters, io, num_processors, process, pushed, heap, loc, output, out, files >>

Recover(r) ==
    /\ Running
    /\ pc[r] = "recover"
    /\ sim' = [sim EXCEPT ![r] = recover(sim[r], parameters)]
    /\ pc' = [pc EXCEPT ![r] = "vaccinate"]
    /\ UNCHANGED << parameters, io, num_processors, process, pushed, heap, loc, output, out, files >>

Vaccinate(r) ==
    /\ Running
    /\ pc[r] = "vaccinate"
    /\ sim' = [sim EXCEPT ![r] = vaccinate(sim[r], parameters)]
    /\ pc' = [pc EXCEPT ![r] = "susceptible"]
    /\ UNCHANGED << parameters, io, num_processors, process, pushed, heap, loc, output, out, files >>

Susceptible(r) ==
    /\ Running
    /\ pc[r] = "susceptible"
    /\ sim' = [sim EXCEPT ![r] = susceptible(sim[r], parameters)]
    /\ pc' = [pc EXCEPT ![r] = "die"]
    /\ UNCHANGED << parameters, io, num_processors, process, pushed, heap, loc, output, out, files >>

\* a report test without the `i != 0` conjunct
ReportsEveryInterval(i) == i % ReportInterval = 0

\* die, then simulate's `if (i != 0 && i % 100 == 0) report(simulation, i)` and the loop step
ReportsAt(i) == i # 0 /\ i % ReportInterval = 0

Die(r) ==
    /\ Running
    /\ pc[r] = "die"
    /\ sim' = [sim EXCEPT ![r] = die(sim[r], parameters)]
    /\ IF ReportsAt(loc[r].i)
       THEN /\ pc' = [pc EXCEPT ![r] = "format"]
            /\ loc' = [loc EXCEPT ![r] = [i |-> loc[r].i, iteration |-> loc[r].i, final |-> FALSE]]
       ELSE /\ pc' = [pc EXCEPT ![r] = LoopCheck(loc[r].i + 1).pc]
            /\ loc' = [loc EXCEPT ![r] = LoopCheck(loc[r].i + 1).loc]
    /\ UNCHANGED << parameters, io, num_processors, process, pushed, heap, output, out, files >>

\* run_one_simulation: free(simulation.agents); the task is complete
Free(r) ==
    /\ Running
    /\ pc[r] = "free"
    /\ heap' = [heap EXCEPT ![r] = 0]
    /\ pc' = [pc EXCEPT ![r] = "done"]
    /\ UNCHANGED << parameters, io, num_processors, process, pushed, sim, loc, output, out, files >>

\* the next step of replica r reads or writes agent slots outside its block
Overruns(r) ==
    \/ pc[r] = "grow" /\ LET res == grow(sim[r], heap[r], parameters)
                         IN  res.sim.size > res.heap
    \/ pc[r] \in {"format", "print_agents", "infect", "recover", "vaccinate",
                  "susceptible", "die", "free"}
       /\ sim[r].size > heap[r]

\* undefined behaviour of an out-of-block access: the step above (memory behaves as if
\* the slots were there), the process dies (glibc: "realloc(): invalid next size"), or
\* the slots hold what the allocator keeps in the released tail of the block
Crash(r) ==
    /\ Running
    /\ Overruns(r)
    /\ process' = "aborted"
    /\ UNCHANGED << parameters, io, num_processors, pushed, pc, sim, heap, loc, output, out, files >>

\* the words the allocator writes into memory it has taken back: a mangled free-list
\* pointer where an identity was, a chunk size or key where a state was
Garbage == { [identity |-> LimbBase + g, state |-> "?"] : g \in {0, 1} }

\* grow when realloc has released slots that hold agents: the first slot outside the
\* kept block reads back as allocator data
Clobber(r) ==
    /\ Running
    /\ pc[r] = "grow"
    /\ LET res == grow(sim[r], heap[r], parameters)
           k == res.heap + 1
       IN  /\ res.heap < heap[r]
           /\ k <= sim[r].size
           /\ \E g \in Garbage :
                 sim' = [sim EXCEPT ![r] = [res.sim EXCEPT !.agents[k] = g]]
           /\ heap' = [heap EXCEPT ![r] = res.heap]
    /\ pc' = [pc EXCEPT ![r] = "infect"]
    /\ UNCHANGED << parameters, io, num_processors, process, pushed, loc, output, out, files >>

Step(r) ==
    \/ RunOneSimulation(r)
    \/ ReportHeader(r)
    \/ ReportFormat(r)
    \/ ReportPuts(r)
    \/ PrintAgents(r)
    \/ PrintAgentsOpenFails(r)
    \/ PrintAgentsWriteFails(r)
    \/ PrintAgentsCloseFails(r)
    \/ Grow(r)
    \/ Infect(r)
    \/ Recover(r)
    \/ Vaccinate(r)
    \/ Susceptible(r)
    \/ Die(r)
    \/ Free(r)

Next ==
    \/ Push
    \/ Join
    \/ \E r \in Replicas : Step(r)
    \/ \E r \in Replicas : Crash(r)
    \/ \E r \in Replicas : Clobber(r)

Spec == Init /\ [][Next]_vars

(* ------------------------------------------------------------------ *)
(* Claims                                                               *)
(* ------------------------------------------------------------------ *)

\* replicas whose simulation exists
Created(r) == pc[r] \notin {"unpushed", "queued"}

\* the state of the agent with identity id in population s ("none": no such agent)
StateOf(s, id) ==
    LET ks == {k \in 1 .. Len(s.agents) : s.agents[k].identity = id}
    IN  IF ks = {} THEN "none" ELSE s.agents[CHOOSE k \in ks : TRUE].state

Identities(s) == {s.agents[k].identity : k \in 1 .. Len(s.agents)}

\* C1: Dead is absorbing: an agent (by identity) that is Dead stays Dead over every
\* step of its replica, whatever event the step is.
C1_DeadIsAbsorbing ==
    [][\A r \in Replicas : \A id \in Identities(sim[r]) :
          StateOf(sim[r], id) = DEAD => StateOf(sim'[r], id) \in {DEAD, "none"}]_vars

\* the edges of the transition table
TransitionTable ==
    { << SUSCEPTIBLE, INFECTIOUS >>, << INFECTIOUS, RECOVERED >>,
      << SUSCEPTIBLE, VACCINATED >>, << VACCINATED, SUSCEPTIBLE >>,
      << RECOVERED, SUSCEPTIBLE >>, << SUSCEPTIBLE, DEAD >>, << INFECTIOUS, DEAD >> }

\* C2: every change of an existing agent's state made by a step is an edge of the
\* transition table; in particular a Recovered or Vaccinated agent never becomes
\* Infectious directly.
C2_OnlyTableEdges ==
    [][\A r \in Replicas : \A id \in Identities(sim[r]) :
          LET old == StateOf(sim[r], id)
              new == StateOf(sim'[r], id)
          IN  new \in {old, "none"} \/ << old, new >> \in TransitionTable]_vars

\* C3: size <= capacity in every reachable state of every replica.
C3_SizeWithinCapacity ==
    \A r \in Replicas : Created(r) => sim[r].size <= sim[r].capacity

\* C4: the identities of the population are unique and are exactly 0 .. size-1.
C4_IdentitiesAreDense ==
    \A r \in Replicas :
        Created(r) =>
            /\ Len(sim[r].agents) = sim[r].size
            /\ Cardinality(Identities(sim[r])) = sim[r].size
            /\ Identities(sim[r]) = 0 .. sim[r].size - 1

\* one tick of a replica run on its own, then the report simulate makes after it
Tick(st, i, p) ==
    LET g == grow(st.sim, st.heap, p)
        inf == IF UsesMethodOne(g.sim, p)
               THEN infect_method_one(g.sim, p)
               ELSE infect_method_two(g.sim, p)
        d == die(susceptible(vaccinate(recover(inf.sim, p), p), p), p)
    IN  [sim |-> IF ReportsAt(i) /\ DumpDue(p, i) THEN [d EXCEPT !.agents = qsort(@)] ELSE d,
         heap |-> g.heap,
         abort |-> inf.abort]

\* the replica with this identity and these parameters at the top of tick i, run on its own
RECURSIVE Reference(_, _, _)
Reference(identity, p, i) ==
    IF i = 0
    THEN new_simulation(identity, p)
    ELSE LET prev == Reference(identity, p, i - 1)
         IN  IF prev.abort THEN prev ELSE Tick(prev, i - 1, p)

\* C5: determinism: whatever else runs and however the replicas are scheduled, a replica
\* at the top of tick i holds exactly the RNG state, population and counters that its
\* identity and the parameters determine.
C5_Determinism ==
    \A r \in Replicas :
        pc[r] = "grow" =>
            LET ref == Reference(r, parameters, loc[r].i)
            IN  ~ref.abort /\ sim[r] = ref.sim

\* stdout cut into lines of RowFields tokens and a newline
LineLen == RowFields + 1
NumLines == Len(out) \div LineLen
LineTok(n, k) == out[(n - 1) * LineLen + k]

\* line n is whole: RowFields tokens of one kind and one writer, then that writer's newline
WholeLine(n) ==
    /\ LineTok(n, LineLen).kind = "nl"
    /\ \A k \in 1 .. RowFields :
          /\ LineTok(n, k).kind = LineTok(n, 1).kind
          /\ LineTok(n, k).kind # "nl"
          /\ LineTok(n, k).by = LineTok(n, LineLen).by
    /\ LineTok(n, 1).kind = "hdr" => \A k \in 1 .. RowFields : LineTok(n, k).val = k

\* a tally row carries the identity of the replica that wrote it
OwnRow(n) == LineTok(n, 1).kind = "num" => LineTok(n, 1).val = LineTok(n, 1).by

\* C6: under every interleaving stdout is a sequence of complete lines, each one the
\* header or a tally row formatted and written by a single replica.
C6_LinesNeverInterleave ==
    /\ Len(out) % LineLen = 0
    /\ \A n \in 1 .. NumLines : WholeLine(n) /\ OwnRow(n)

\* two replicas are running at once and a row of replica 1 precedes a row of replica 0
C6_Witness ==
    /\ Active(0) /\ Active(1)
    /\ \E n1, n0 \in 1 .. NumLines :
          /\ n1 < n0
          /\ LineTok(n1, 1).kind = "num" /\ LineTok(n1, 1).by = 1
          /\ LineTok(n0, 1).kind = "num" /\ LineTok(n0, 1).by = 0

\* C7: no two replicas write the same agent dump file.
C7_NoSharedDumpFile ==
    \A f \in DOMAIN files : Cardinality(files[f].writers) <= 1

\* the labels of the tally rows replica r has written, in order
RowLabels(r) ==
    LET rows == SelectSeq([n \in 1 .. NumLines |-> n],
                          LAMBDA n : LineTok(n, 1).kind = "num" /\ LineTok(n, 1).by = r)
    IN  [k \in 1 .. Len(rows) |-> LineTok(rows[k], 2).val]

HeaderLines == {n \in 1 .. NumLines : LineTok(n, 1).kind = "hdr"}

\* C8: main returns only when exactly the replicas 0 .. simulations-1 were pushed and
\* each has run simulate once, to its final tally row (the rows are there to be counted
\* when standard output takes the writes).
C8_MainJoinsAllReplicas ==
    process = "returned" =>
        /\ pushed = parameters.simulations
        /\ \A r \in Replicas :
              IF r < parameters.simulations
              THEN /\ pc[r] = "done"
                   /\ sim[r].identity = r
                   /\ io # "stdout_fails" =>
                         /\ RowLabels(r) # << >>
                         /\ RowLabels(r)[Len(RowLabels(r))] = parameters.iterations
                         /\ Cardinality({k \in 1 .. Len(RowLabels(r)) : RowLabels(r)[k] = 0})
                              = IF parameters.iterations = 0 THEN 2 ELSE 1
              ELSE pc[r] = "unpushed" /\ RowLabels(r) = << >>
        /\ io # "stdout_fails" =>
              Cardinality(HeaderLines) = IF parameters.simulations > 0 THEN 1 ELSE 0

C8_Witness ==
    /\ process = "returned"
    /\ parameters.simulations = MaxSimulations
    /\ parameters.iterations > 0

\* C9: nothing cuts a replica short: the process never dies under a started replica, and
\* a replica that has finished ran exactly `iterations` ticks and wrote the final row.
C9_RunsAllIterations ==
    /\ process # "aborted"
    /\ \A r \in Replicas :
          pc[r] = "done" =>
              /\ loc[r].final
              /\ loc[r].i = parameters.iterations
              /\ RowLabels(r) # << >>
              /\ RowLabels(r)[Len(RowLabels(r))] = parameters.iterations

\* the multiples of the interval strictly between 0 and iterations, in increasing order
RECURSIVE IntervalLabels(_, _)
IntervalLabels(k, iterations) ==
    IF k * ReportInterval < iterations
    THEN << k * ReportInterval >> \o IntervalLabels(k + 1, iterations)
    ELSE << >>

ExpectedLabels(iterations) == << 0 >> \o IntervalLabels(1, iterations) \o << iterations >>

IsPrefix(a, b) == Len(a) <= Len(b) /\ a = SubSeq(b, 1, Len(a))

\* C10: the labels of a replica's tally rows, in emission order, are 0, the multiples of
\* 100 strictly between 0 and iterations, then iterations: always a prefix of that list,
\* and the whole list once the replica is done and standard output took the writes.
C10_ReportingCadence ==
    \A r \in Replicas :
        LET labels == RowLabels(r)
        IN  /\ IsPrefix(labels, ExpectedLabels(parameters.iterations))
            /\ pc[r] = "done" /\ io # "stdout_fails" =>
                  labels = ExpectedLabels(parameters.iterations)

\* a finished replica whose run crossed a report at a multiple of the interval and ended
\* on a tick that is not one
C10_Witness ==
    \E r \in Replicas :
        /\ pc[r] = "done"
        /\ parameters.iterations > ReportInterval
        /\ parameters.iterations % ReportInterval # 0
        /\ Len(RowLabels(r)) >= 3

\* the tally rows on stdout: line numbers, and field k of row n
TallyRows == {n \in 1 .. NumLines : LineTok(n, 1).kind = "num"}
Field(n, k) == LineTok(n, k).val

\* C11: at every reporting point infection_deaths (TID, field 9 of the row) is at most
\* the number of Dead agents (D, field 7).
C11_InfectionDeathsWithinDead ==
    \A n \in TallyRows : Field(n, 9) <= Field(n, 7)

\* C12: total_infections never decreases over a step of the replica, and in every state
\* of a created replica it is at least the initial number of infections.
C12_TotalInfectionsMonotone ==
    /\ [](\A r \in Replicas :
            Created(r) => sim[r].total_infections >= parameters.infectious)
    /\ [][\A r \in Replicas :
            sim'[r].total_infections >= sim[r].total_infections]_vars

\* a replica seeded with infections has finished its run and counted new ones
C12_Witness ==
    \E r \in Replicas :
        /\ pc[r] = "done"
        /\ parameters.infectious > 0
        /\ sim[r].total_infections > parameters.infectious

\* C13: for growth >= 0 the size of a replica's population never decreases over a step,
\* and the only step that changes it is grow.
C13_SizeNonDecreasing ==
    [][parameters.growth >= 0 =>
         \A r \in Replicas :
             Created(r) =>
                 /\ sim'[r].size >= sim[r].size
                 /\ sim'[r].size # sim[r].size => pc[r] = "grow"]_vars

\* a replica with positive growth has finished with more agents than it started with,
\* some of them Dead
C13_Witness ==
    \E r \in Replicas :
        /\ pc[r] = "done"
        /\ parameters.growth > 0
        /\ sim[r].size > parameters.agents
        /\ count_if_state(sim[r].agents, sim[r].size, DEAD) > 0

\* the row replica r has formatted and is about to write
PendingRow(r) == output[OutputBuffer(r)]

\* C14: in every tally row the five state counts (fields 3 .. 7) add up to the size of
\* the population the row was computed from.
C14_CountsPartitionPopulation ==
    \A r \in Replicas :
        pc[r] = "puts" =>
            PendingRow(r)[3] + PendingRow(r)[4] + PendingRow(r)[5]
              + PendingRow(r)[6] + PendingRow(r)[7] = sim[r].size

\* the first tally row replica r has written (0: none yet)
FirstRow(r) ==
    LET rows == {n \in TallyRows : LineTok(n, 1).by = r}
    IN  IF rows = {} THEN 0 ELSE CHOOSE n \in rows : \A k \in rows : n <= k

\* C15: for infectious <= agents a newly created replica has size = agents, and its
\* tick-0 row is identity, 0, S = agents - infectious, I = infectious, R = V = D = 0,
\* TI = infectious, TID = 0.
C15_InitialTally ==
    parameters.infectious <= parameters.agents =>
        \A r \in Replicas :
            LET first == FirstRow(r)
            IN  /\ Created(r) /\ first = 0 => sim[r].size = parameters.agents
                /\ first # 0 =>
                      [k \in 1 .. RowFields |-> Field(first, k)]
                        = << r, 0, parameters.agents - parameters.infectious,
                             parameters.infectious, 0, 0, 0, parameters.infectious, 0 >>

\* two replicas of a batch with initial infections have both written their tick-0 row
C15_Witness ==
    /\ FirstRow(0) # 0 /\ FirstRow(1) # 0
    /\ parameters.infectious > 0
    /\ parameters.agents > parameters.infectious

\* the event that follows each event of a tick
EventAfter ==
    [e \in {"grow", "infect", "recover", "vaccinate", "susceptible"} |->
        CASE e = "grow" -> "infect"
          [] e = "infect" -> "recover"
          [] e = "recover" -> "vaccinate"
          [] e = "vaccinate" -> "susceptible"
          [] e = "susceptible" -> "die"]

\* C16: over every step, a replica inside a tick moves from each event to the next one
\* of grow, infect, recover, vaccinate, susceptible, die and to nothing else; an event is
\* entered only from its predecessor (grow: from the previous tick's die or from a
\* report, with the tick number advanced by one); between the events of a tick the
\* replica writes no row and its tick number stays; its simulation changes only in a
\* step that moves the replica on (or in the print_agents that ends the process).
C16_FixedEventOrder ==
    [][\A r \in Replicas :
         /\ pc[r] \in DOMAIN EventAfter /\ pc'[r] # pc[r] => pc'[r] = EventAfter[pc[r]]
         /\ \A e \in DOMAIN EventAfter :
               pc'[r] = EventAfter[e] /\ pc'[r] # pc[r] => pc[r] = e
         /\ pc'[r] = "grow" /\ pc[r] # "grow" =>
               /\ pc[r] \in {"die", "puts", "print_agents"}
               /\ loc'[r].i = IF pc[r] # "die" /\ loc[r].iteration = 0 THEN 0 ELSE loc[r].i + 1
         /\ pc[r] \in DOMAIN EventAfter =>
               /\ loc'[r] = loc[r]
               /\ RowLabels(r)' = RowLabels(r)
               /\ output'[OutputBuffer(r)] = output[OutputBuffer(r)]
         /\ sim'[r] # sim[r] => pc'[r] # pc[r] \/ process' = "exited"]_vars

\* a replica has finished a run of at least two ticks
C16_Witness ==
    \E r \in Replicas :
        /\ pc[r] = "done"
        /\ parameters.iterations >= 2
        /\ loc[r].i = parameters.iterations

\* C17: a grow step appends exactly round(growth * live) agents, live the number of
\* agents that are not Dead: the new agents are Susceptible with identities size,
\* size + 1, ... at the end of the population, and every existing agent keeps its
\* position, identity and state.
C17_GrowAppends ==
    [][\A r \in Replicas :
         pc[r] = "grow" /\ pc'[r] = "infect" =>
             LET old == sim[r]
                 new == sim'[r]
                 live == Cardinality({k \in 1 .. old.size : old.agents[k].state # DEAD})
                 added == Round(parameters.growth * live, GrowthDen)
             IN  /\ new.size = old.size + added
                 /\ Len(new.agents) = new.size
                 /\ \A k \in 1 .. old.size :
                       k <= Len(new.agents) /\ new.agents[k] = old.agents[k]
                 /\ \A k \in old.size + 1 .. new.size :
                       new.agents[k] = [identity |-> k - 1, state |-> SUSCEPTIBLE]]_vars

\* C18: an infect step under Method A changes at most `encounters` agents, each from
\* Susceptible to Infectious and only if an Infectious agent was there to meet;
\* total_infections grows by the number of agents changed; nothing else moves. With
\* encounters = 0 nothing changes.
C18_MethodOneBounded ==
    [][\A r \in Replicas :
         pc[r] = "infect" /\ pc'[r] = "recover" /\ UsesMethodOne(sim[r], parameters) =>
             LET old == sim[r]
                 new == sim'[r]
                 changed == {k \in 1 .. old.size : new.agents[k] # old.agents[k]}
             IN  /\ new.size = old.size /\ Len(new.agents) = Len(old.agents)
                 /\ \A k \in changed :
                       /\ old.agents[k].state = SUSCEPTIBLE
                       /\ new.agents[k] = [old.agents[k] EXCEPT !.state = INFECTIOUS]
                 /\ Cardinality(changed) <= parameters.encounters
                 /\ new.total_infections = old.total_infections + Cardinality(changed)
                 /\ count_if_state(old.agents, old.size, INFECTIOUS) = 0 => changed = {}]_vars

\* the first infect step under Method A has infected as many agents as there were encounters
C18_Witness ==
    \E r \in Replicas :
        /\ pc[r] = "recover" /\ loc[r].i = 0
        /\ UsesMethodOne(sim[r], parameters)
        /\ parameters.encounters > 1
        /\ sim[r].total_infections = parameters.infectious + parameters.encounters

\* the positions (0-based) of the Susceptible agents of population s
SusceptiblePositions(s) == {q \in 0 .. s.size - 1 : At(s.agents, q).state = SUSCEPTIBLE}

\* C19: the indices Method B collects before its shuffle are the positions of the first
\* min(encounters, number of Susceptible agents) Susceptible agents in scan order.
C19_IndicesAreFirstSusceptibles ==
    \A r \in Replicas :
        pc[r] = "infect" /\ ~UsesMethodOne(sim[r], parameters) =>
            LET indices == get_indices(sim[r], 0, SUSCEPTIBLE, parameters.encounters)
                sus == SusceptiblePositions(sim[r])
            IN  /\ Len(indices) = Min(parameters.encounters, Cardinality(sus))
                /\ \A j \in 1 .. Len(indices) :
                      /\ indices[j] \in sus
                      /\ Cardinality({q \in sus : q < indices[j]}) = j - 1

\* the position (0-based) of the agent with identity id in population s
PositionOf(s, id) == CHOOSE q \in 0 .. s.size - 1 : At(s.agents, q).identity = id

\* the pairing loop on the agents recorded before the shuffle: entry i infects the agent
\* with identity ids[i + 1] when the agent now at position i is Infectious
RECURSIVE PairRecorded(_, _, _)
PairRecorded(s, ids, i) ==
    IF i < Len(ids)
    THEN IF At(s.agents, i).state = INFECTIOUS
         THEN PairRecorded(
                [s EXCEPT !.agents = SetState(s.agents, PositionOf(s, ids[i + 1]), INFECTIOUS),
                          !.total_infections = @ + 1], ids, i + 1)
         ELSE PairRecorded(s, ids, i + 1)
    ELSE s

\* C20: an infect step under Method B leaves the replica as the pairing on recorded
\* agents does: for each collected entry i, if the agent at position i of the shuffled
\* array is Infectious, the agent that was at position indices[i] when the indices were
\* collected becomes Infectious and total_infections is incremented once.
C20_InfectsRecordedAgent ==
    [][\A r \in Replicas :
         pc[r] = "infect" /\ pc'[r] = "recover" /\ ~UsesMethodOne(sim[r], parameters) =>
             LET old == sim[r]
                 indices == get_indices(old, 0, SUSCEPTIBLE, parameters.encounters)
                 ids == [j \in 1 .. Len(indices) |-> At(old.agents, indices[j]).identity]
                 sh == shuffle(old.agents, old.size, old.rng)
                 shuffled == [old EXCEPT !.agents = sh.agents, !.rng = sh.rng]
             IN  sim'[r] = PairRecorded(shuffled, ids, 0)]_vars

\* C21: an infect step under Method B never increases the number of Susceptible agents.
C21_MethodTwoSusceptibleNonIncreasing ==
    [][\A r \in Replicas :
         pc[r] = "infect" /\ pc'[r] = "recover" /\ ~UsesMethodOne(sim[r], parameters) =>
             count_if_state(sim'[r].agents, sim'[r].size, SUSCEPTIBLE)
               <= count_if_state(sim[r].agents, sim[r].size, SUSCEPTIBLE)]_vars

\* the first infect step under Method B, on a population that did not grow, has left
\* fewer Susceptible agents than creation did
C21_Witness ==
    \E r \in Replicas :
        /\ pc[r] = "recover" /\ loc[r].i = 0
        /\ ~UsesMethodOne(sim[r], parameters)
        /\ parameters.growth = 0
        /\ parameters.infectious <= parameters.agents
        /\ count_if_state(sim[r].agents, sim[r].size, SUSCEPTIBLE)
             < parameters.agents - parameters.infectious

\* C22: when encounters exceeds the population size, a Method B infect step collects at
\* most size indices, each a position below size and each stored below encounters in the
\* index buffer, pairs only positions below size, and completes without a fault.
C22_MethodTwoClampsToPopulation ==
    \A r \in Replicas :
        pc[r] = "infect" /\ ~UsesMethodOne(sim[r], parameters)
          /\ parameters.encounters > sim[r].size =>
            LET indices == get_indices(sim[r], 0, SUSCEPTIBLE, parameters.encounters)
            IN  /\ Len(indices) <= sim[r].size
                /\ Len(indices) <= parameters.encounters
                /\ \A j \in 1 .. Len(indices) : indices[j] < sim[r].size
                /\ ~infect_method_two(sim[r], parameters).abort

\* C23: the one infect step of a tick runs Method A when infection_method is ONE, or is
\* BOTH and the replica's identity is even, and runs Method B otherwise (TWO, or BOTH and
\* an odd identity); the step's result is that of exactly the selected method.
C23_MethodSelection ==
    [][\A r \in Replicas :
         pc[r] = "infect" /\ pc'[r] = "recover" =>
             /\ sim[r].identity = r
             /\ sim'[r] =
                  IF parameters.infection_method = ONE
                       \/ (parameters.infection_method = BOTH /\ r % 2 = 0)
                  THEN infect_method_one(sim[r], parameters).sim
                  ELSE infect_method_two(sim[r], parameters).sim]_vars

\* under BOTH, an even and an odd replica have each just run their infect step
C23_Witness ==
    /\ parameters.infection_method = BOTH
    /\ parameters.simulations = 2
    /\ pc[0] = "recover"
    /\ pc[1] = "recover"

\* C24: with output_agents = M > 0, a replica that completes tick t, where t is a
\* multiple of M, goes on to a report labelled t, the report whose dump test runs
\* print_agents for that tick.
C24_DumpAtEveryMultiple ==
    [][\A r \in Replicas :
         /\ pc[r] = "die" /\ pc'[r] # "die"
         /\ parameters.output_agents > 0
         /\ (loc[r].i + 1) % parameters.output_agents = 0
         => /\ pc'[r] = "format"
            /\ loc'[r].iteration = loc[r].i + 1
            /\ DumpDue(parameters, loc'[r].iteration)]_vars

\* C25: a dump file that print_agents has written begins with the header line
\* `id,state` (a first line whose second field is the word "state", which is no state
\* letter), and the agent rows follow it.
C25_DumpBeginsWithHeader ==
    \A f \in DOMAIN files :
        files[f].writers # {} =>
            /\ Len(files[f].rows) >= 1
            /\ files[f].rows[1][2] = "state"

\* C26: the file print_agents writes holds exactly one row per agent of the population
\* (size rows, each agent's identity with the letter of its state), in strictly
\* ascending identity order, every letter one of S, I, R, V, D, whatever order the
\* population had before the dump.
StateLetters == { "S", "I", "R", "V", "D" }

C26_DumpIsSortedPopulation ==
    [][\A r \in Replicas :
         pc[r] = "print_agents" /\ pc'[r] # "print_agents" =>
             LET rows == files'[DumpFile(r, parameters)].rows
             IN  /\ Len(rows) = sim[r].size
                 /\ \A k \in 1 .. Len(rows) - 1 : rows[k][1] < rows[k + 1][1]
                 /\ \A k \in 1 .. Len(rows) : rows[k][2] \in StateLetters
                 /\ \A q \in 1 .. sim[r].size :
                       \E k \in 1 .. Len(rows) :
                           rows[k] = << sim[r].agents[q].identity,
                                        state_char(sim[r].agents[q].state) >>]_vars

\* the identities of a population in array order
IdentityOrder(s) == [k \in 1 .. Len(s.agents) |-> s.agents[k].identity]

\* b holds the elements of a, each as often as a does
IsPermutation(a, b) ==
    /\ Len(a) = Len(b)
    /\ \A k \in 1 .. Len(a) :
          Cardinality({j \in 1 .. Len(a) : a[j] = a[k]})
            = Cardinality({j \in 1 .. Len(b) : b[j] = a[k]})

SeedBytes(s) ==
    [k \in 1 .. 8 |-> IF k % 2 = 1 THEN s[(k + 1) \div 2] % 256 ELSE s[k \div 2] \div 256]

\* the multiplier 1103515245 as four bytes, least significant first
MultiplierBytes ==
    << LcgMulLow % 256, LcgMulLow \div 256, LcgMulHigh % 256, LcgMulHigh \div 256 >>

\* long multiplication by columns: byte k (from 0) of a * 1103515245 + carry-in, the
\* bytes from 8 on dropped (mod 2^64)
RECURSIVE MulAddBytes(_, _, _)
MulAddBytes(a, k, carry) ==
    IF k >= 8 THEN << >>
    ELSE LET Term(j) == IF j <= k THEN a[k - j + 1] * MultiplierBytes[j + 1] ELSE 0
             total == carry + Term(0) + Term(1) + Term(2) + Term(3)
         IN  << total % 256 >> \o MulAddBytes(a, k + 1, total \div 256)

\* (seed * 1103515245 + 12345) mod 2^64, as limbs
NextSeed(s) ==
    LET b == MulAddBytes(SeedBytes(s), 0, LcgInc)
    IN  [k \in 1 .. 4 |-> b[2 * k - 1] + 256 * b[2 * k]]

\* the bounds rng_to is tried with
RngBounds == 1 .. MaxAgents + 1

\* the positions of a replica whose next event uses the generator (grow draws nothing)
DrawingPositions == {"infect", "recover", "vaccinate", "susceptible", "die"}

\* C28: from every seed a replica holds when it is about to run an event,
\* rng_uint64_t moves the seed to (seed * 1103515245 + 12345) mod 2^64 and returns
\* (seed' / 65536) mod 32768, a value in [0, 32768); rng_double's value, that number
\* over 32768, is in [0, 1) and never 1; rng_to(max) for max > 0 returns a value in
\* [0, max) and does not fail.
C28_RngRanges ==
    \A r \in Replicas :
        pc[r] \in DrawingPositions =>
            LET rng == sim[r].rng
                d == rng_uint64_t(rng)
                f == rng_double(rng)
            IN  /\ d.rng = NextSeed(rng)
                /\ d.val = (d.rng[2] + LimbBase * (d.rng[3] % 2)) % 32768
                /\ d.val \in 0 .. 32768 - 1
                /\ f.rng = d.rng
                /\ f.val >= 0 /\ f.val < m
                /\ \A max \in RngBounds :
                      LET t == rng_to(rng, max)
                      IN  /\ ~t.abort
                          /\ t.rng = d.rng
                          /\ t.val = d.val % max
                          /\ t.val \in 0 .. max - 1

\* a replica holds a seed whose product with the multiplier wraps at 2^64 and whose
\* next value is in the upper half of the range
C28_Witness ==
    \E r \in Replicas :
        /\ pc[r] \in DrawingPositions
        /\ sim[r].rng[4] >= 32768
        /\ rng_uint64_t(sim[r].rng).val >= 32768 \div 2
        /\ rng_to(sim[r].rng, MaxAgents).val = MaxAgents - 1

\* C29: no call of rng_to has max = 0: neither the creation of a replica that is about
\* to start (new_simulation and its shuffle) nor the infect step a replica is about to
\* take (either method) fails the assertion of rng_to.
C29_RngToNeverZero ==
    \A r \in Replicas :
        /\ Running /\ CanStart(r) => ~new_simulation(r, parameters).abort
        /\ Running /\ pc[r] = "infect" =>
              /\ UsesMethodOne(sim[r], parameters) =>
                    ~infect_method_one(sim[r], parameters).abort
              /\ ~UsesMethodOne(sim[r], parameters) =>
                    ~infect_method_two(sim[r], parameters).abort

\* C30: a failed write is fatal: a replica whose tally row cannot be written to stdout
\* goes no further than the puts of that row, and a replica whose dump file cannot be
\* opened or written goes no further than that print_agents.
C30_IoFaultsAreFatal ==
    [][\A r \in Replicas :
         /\ io = "stdout_fails" /\ pc[r] = "puts" => pc'[r] = "puts"
         /\ io \in {"fopen_fails", "dump_write_fails"} /\ pc[r] = "print_agents" =>
               pc'[r] = "print_agents"]_vars

\* the agents (by identity) that a step takes from Susceptible to Infectious
NewlyInfected(old, new) ==
    {id \in Identities(old) : StateOf(old, id) = SUSCEPTIBLE /\ StateOf(new, id) = INFECTIOUS}

\* C31: total_infections starts at the initial infectious count and every step adds to it
\* exactly the number of agents the step takes from Susceptible to Infectious.
C31_TotalInfectionsCountsInfections ==
    [][\A r \in Replicas :
         /\ ~Created(r) /\ Created(r)' => sim'[r].total_infections = parameters.infectious
         /\ Created(r) =>
               sim'[r].total_infections - sim[r].total_infections
                 = Cardinality(NewlyInfected(sim[r], sim'[r]))]_vars

\* the positions whose agent a step takes from state `from` to state `to`
Moved(old, new, from, to) ==
    {k \in 1 .. old.size :
        k <= Len(new.agents) /\ old.agents[k].state = from /\ new.agents[k].state = to}

\* C32: infection_deaths is 0 at creation; a die step adds to it exactly the number of
\* agents it takes from Infectious to Dead (none for Susceptible to Dead); no other step
\* changes it.
C32_InfectionDeathsCountInfectiousDeaths ==
    [][\A r \in Replicas :
         /\ ~Created(r) /\ Created(r)' => sim'[r].infection_deaths = 0
         /\ Created(r) =>
               sim'[r].infection_deaths - sim[r].infection_deaths
                 = IF pc[r] = "die" /\ pc'[r] # "die"
                   THEN Cardinality(Moved(sim[r], sim'[r], INFECTIOUS, DEAD))
                   ELSE 0]_vars

\* a replica under Method A has counted an infection death and holds more Dead agents
\* than infection deaths: some agent died Susceptible and was not counted
C32_Witness ==
    \E r \in Replicas :
        /\ Created(r)
        /\ UsesMethodOne(sim[r], parameters)
        /\ sim[r].infection_deaths > 0
        /\ count_if_state(sim[r].agents, sim[r].size, DEAD) > sim[r].infection_deaths

\* the states each Bernoulli event is open to, and the state it moves an agent to
EligibleStates ==
    [e \in {"recover", "vaccinate", "susceptible", "die"} |->
        CASE e = "recover" -> {INFECTIOUS}
          [] e = "vaccinate" -> {SUSCEPTIBLE}
          [] e = "susceptible" -> {VACCINATED, RECOVERED}
          [] e = "die" -> {SUSCEPTIBLE, INFECTIOUS}]

TargetState ==
    [e \in {"recover", "vaccinate", "susceptible", "die"} |->
        CASE e = "recover" -> RECOVERED
          [] e = "vaccinate" -> VACCINATED
          [] e = "susceptible" -> SUSCEPTIBLE
          [] e = "die" -> DEAD]

\* the seed after n draws
RECURSIVE Advance(_, _)
Advance(rng, n) == IF n = 0 THEN rng ELSE Advance(rng_uint64_t(rng).rng, n - 1)

\* C33: a recover, vaccinate, susceptible or die step changes only agents in the event's
\* eligible states, and those only to the event's target state; it draws exactly one
\* random number per eligible agent; size, capacity, the order and identities of the
\* agents and total_infections are unchanged.
C33_BernoulliEventsFrame ==
    [][\A r \in Replicas :
         pc[r] \in DOMAIN EligibleStates /\ pc'[r] # pc[r] =>
             LET old == sim[r]
                 new == sim'[r]
                 eligible == {k \in 1 .. old.size : old.agents[k].state \in EligibleStates[pc[r]]}
             IN  /\ new.size = old.size
                 /\ new.capacity = old.capacity
                 /\ new.total_infections = old.total_infections
                 /\ IdentityOrder(new) = IdentityOrder(old)
                 /\ \A k \in 1 .. old.size :
                       new.agents[k].state # old.agents[k].state =>
                           k \in eligible /\ new.agents[k].state = TargetState[pc[r]]
                 /\ new.rng = Advance(old.rng, Cardinality(eligible))]_vars

\* a finished replica holds Recovered, Vaccinated and Dead agents at once
C33_Witness ==
    \E r \in Replicas :
        /\ pc[r] = "done"
        /\ count_if_state(sim[r].agents, sim[r].size, RECOVERED) > 0
        /\ count_if_state(sim[r].agents, sim[r].size, VACCINATED) > 0
        /\ count_if_state(sim[r].agents, sim[r].size, DEAD) > 0

\* C34: the label of a tally row is the number of ticks the replica has completed when
\* the row is computed: 0 for the row that follows creation, and i + 1 for a row that
\* follows the die of the loop pass with index i (passes 0 .. i are then complete).
C34_RowLabelIsTickCount ==
    [][\A r \in Replicas :
         /\ ~Created(r) /\ pc'[r] \in {"header", "format"} => loc'[r].iteration = 0
         /\ pc[r] = "die" /\ pc'[r] = "format" => loc'[r].iteration = loc[r].i + 1]_vars

\* C35: the header is the first line of stdout and the only header line: it is written
\* once and no tally row of any replica comes before it.
C35_HeaderOnceAndFirst ==
    \A n \in 1 .. NumLines : (LineTok(n, 1).kind = "hdr") <=> (n = 1)

\* the ticks a replica has completed when it writes the row it is at
TicksAtReport(r) ==
    IF loc[r].final THEN parameters.iterations
    ELSE IF loc[r].iteration = 0 THEN 0 ELSE loc[r].i + 1

\* the loop passes from .. to - 1 of simulate run on st, by halves
RECURSIVE RunTicks(_, _, _, _)
RunTicks(st, from, to, p) ==
    IF st.abort \/ to <= from THEN st
    ELSE IF to = from + 1 THEN Tick(st, from, p)
    ELSE LET mid == (from + to) \div 2
         IN  RunTicks(RunTicks(st, from, mid, p), mid, to, p)

\* C36: with growth 0, every tally row a replica of a run with agent dumps writes is the
\* row the same replica writes at that point of the run with the same parameters and
\* output_agents = 0.
C36_DumpsDoNotPerturb ==
    \A r \in Replicas :
        pc[r] = "puts" /\ parameters.growth = 0 /\ parameters.output_agents > 0 =>
            LET undumped == [parameters EXCEPT !.output_agents = 0]
                ref == RunTicks(new_simulation(r, undumped), 0, TicksAtReport(r), undumped)
            IN  PendingRow(r) = FormatRow(ref.sim, loc[r].iteration)

\* C37: once a replica's population holds no Infectious agent, no step gives it one and
\* no step changes total_infections.
C37_ExtinctionIsAbsorbing ==
    [][\A r \in Replicas :
         Created(r) /\ count_if_state(sim[r].agents, sim[r].size, INFECTIOUS) = 0 =>
             /\ count_if_state(sim'[r].agents, sim'[r].size, INFECTIOUS) = 0
             /\ sim'[r].total_infections = sim[r].total_infections]_vars

\* a replica that has had infections has passed an infect step with encounters and
\* Susceptible agents to hand, and holds no Infectious agent
C37_Witness ==
    \E r \in Replicas :
        /\ pc[r] = "recover"
        /\ loc[r].i >= 1
        /\ parameters.encounters > 0
        /\ sim[r].total_infections > 0
        /\ count_if_state(sim[r].agents, sim[r].size, INFECTIOUS) = 0
        /\ count_if_state(sim[r].agents, sim[r].size, SUSCEPTIBLE) > 0

\* C38: in a replica that has just been created, every slot the creation marked
\* Infectious is a position of the population (below size), and total_infections is the
\* number of Infectious agents in the population.
C38_CreationWithinPopulation ==
    \A r \in Replicas :
        pc[r] \in {"header", "format"} /\ loc[r].i = 0 /\ loc[r].iteration = 0
          /\ ~loc[r].final =>
            /\ \A slot \in MarkedSlots(parameters) : slot < sim[r].size
            /\ sim[r].total_infections
                 = count_if_state(sim[r].agents, sim[r].size, INFECTIOUS)


(* ------------------------------------------------------------------ *)
(* C39: index draws and the population size                             *)
(* ------------------------------------------------------------------ *)

\* generator states seed = k * 65536. The value of rng_uint64_t is limb 1 of the
\* next seed reduced modulo m, and limb 1 of the next seed is
\* (k * LcgMulLow + LcgInc \div LimbBase) % LimbBase, a bijection of k since
\* LcgMulLow is odd: these states produce every value rng_uint64_t can return.
DrawSeeds == { << 0, k, 0, 0 >> : k \in 0 .. LimbBase - 1 }

\* population sizes a draw is made for: the small ones, the endemic one, and the
\* first size above the generator's modulus
DrawSizes == (1 .. MaxAgents + 1) \cup {EndemicAgents, m + 1}

\* positions looked at for size n: all of them for a small n, the last one always
DrawPositions(n) == (0 .. Min(n, MaxAgents + 1) - 1) \cup {n - 1}

\* C39: for every population size n >= 1, every position of the population is a
\* possible result of rng_to(rng, n): some generator state draws it.
C39_EveryPositionDrawable ==
    \A r \in Replicas :
        Created(r) =>
            \A n \in DrawSizes \cup ({sim[r].size} \ {0}) :
                \A p \in DrawPositions(n) :
                    \E rng \in DrawSeeds : rng_to(rng, n).val = p


(* ------------------------------------------------------------------ *)
(* C40: shuffle permutes the first n agents                             *)
(* ------------------------------------------------------------------ *)

\* the agents in C positions from .. to - 1
Slots(agents, from, to) == [k \in 1 .. to - from |-> agents[from + k]]

\* the n shuffle is tried with on a block of agents: every short prefix, and the whole
ShuffleSizes(agents) ==
    (1 .. Min(Len(agents), MaxAgents + 1)) \cup ({Len(agents)} \ {0})

\* shuffle(agents, n, rng) does not fail, leaves the multiset of (identity, state) pairs
\* in positions 0 .. n - 1 unchanged (so every per-state count too), touches no position
\* >= n, keeps the number of slots, and draws n - 1 random numbers; for n = 1 it swaps
\* nothing and draws nothing
ShufflePermutes(agents, n, rng) ==
    LET sh == shuffle(agents, n, rng)
    IN  /\ ~sh.abort
        /\ Len(sh.agents) = Len(agents)
        /\ IsPermutation(Slots(agents, 0, n), Slots(sh.agents, 0, n))
        /\ \A state \in {SUSCEPTIBLE, INFECTIOUS, RECOVERED, VACCINATED, DEAD} :
              count_if_state(sh.agents, n, state) = count_if_state(agents, n, state)
        /\ Slots(sh.agents, n, Len(agents)) = Slots(agents, n, Len(agents))
        /\ sh.rng = Advance(rng, n - 1)
        /\ n = 1 => sh.agents = agents /\ sh.rng = rng

\* C40: over every infection step of a replica, shuffle applied to the replica's agents
\* and generator state is a permutation of the first n agents for every n >= 1 tried;
\* and when the step is Method B, whose only draws are the shuffle's, the step leaves
\* the generator where the shuffle left it, the size unchanged, and the identities in
\* the order the shuffle gave them.
C40_ShuffleIsPermutation ==
    [][\A r \in Replicas :
          pc[r] = "infect" /\ pc'[r] = "recover" =>
              /\ \A n \in ShuffleSizes(sim[r].agents) :
                    ShufflePermutes(sim[r].agents, n, sim[r].rng)
              /\ ~UsesMethodOne(sim[r], parameters) =>
                    LET sh == shuffle(sim[r].agents, sim[r].size, sim[r].rng)
                    IN  /\ sim'[r].rng = sh.rng
                        /\ sim'[r].size = sim[r].size
                        /\ IdentityOrder(sim'[r])
                             = [k \in 1 .. Len(sh.agents) |-> sh.agents[k].identity]]_vars

\* a replica has just run Method B on three or more agents, some of them Susceptible
\* and some not, and its agents are no longer in identity order
C40_Witness ==
    \E r \in Replicas :
        /\ pc[r] = "recover"
        /\ ~UsesMethodOne(sim[r], parameters)
        /\ sim[r].size >= 3
        /\ count_if_state(sim[r].agents, sim[r].size, SUSCEPTIBLE) \in 1 .. sim[r].size - 1
        /\ \E k \in 1 .. sim[r].size : sim[r].agents[k].identity # k - 1

====
